---- MODULE Spec2Model ----
(***************************************************************************)
(* Model of scripts/LLMReview.py: the mapping of model-generated review    *)
(* comments (raw diff line references) onto inline review comments.        *)
(*                                                                         *)
(* Strings are sequences of one-character strings, so that startswith,     *)
(* slicing, split and int() are computed on the characters as Python       *)
(* computes them.  diff_text is held as diff_text.split('\n'): a string    *)
(* and the non-empty list of its newline-free lines determine each other.  *)
(***************************************************************************)
EXTENDS Integers, Sequences, FiniteSets, TLC

\* ------------------------------------------------------------- bounds
\* longest diff (in raw lines) drawn when the diff text is arbitrary
MaxLines == 3
\* longest hunk body (in content lines) of a generated well-formed diff
MaxBody == 2
\* longest list of raw comments returned by the provider
MaxComments == 3

VARIABLES
    pc,               \* position of main()
    diff_text,        \* diff_text.split('\n')
    diff_lines,       \* provenance of diff_text: what each raw line is in the diff that was rendered
    all_comments,     \* what the provider returned
    idx,              \* 1-based position of the projection loop in all_comments
    github_comments,  \* the projected comments
    requests,         \* review requests POSTed (each the comments of one payload)
    outcome,          \* how the run of main() ended
    args,             \* arguments of the last extract_file_line_number call
    ret               \* what that call returned or raised

vars == <<pc, diff_text, diff_lines, all_comments, idx, github_comments,
          requests, outcome, args, ret>>

\* ------------------------------------------------------ Python values
\* A Python value as the JSON of a model response can hold it.
PyStr(s)  == [type |-> "str",  s |-> s,    n |-> 0]
PyInt(n)  == [type |-> "int",  s |-> <<>>, n |-> n]
PyNone    == [type |-> "none", s |-> <<>>, n |-> 0]
\* an absent dict key
Missing   == [type |-> "missing", s |-> <<>>, n |-> 0]

StartsWith(s, p) == Len(s) >= Len(p) /\ SubSeq(s, 1, Len(p)) = p

\* s[k:] with k >= 0
SliceFrom(s, k) == SubSeq(s, k + 1, Len(s))

\* s.split(sep) for a one-character separator
RECURSIVE Split(_, _)
Split(s, sep) ==
    LET at == {i \in 1..Len(s) : s[i] = sep}
    IN  IF at = {} THEN <<s>>
        ELSE LET i == CHOOSE j \in at : \A k \in at : j <= k
             IN  <<SubSeq(s, 1, i - 1)>> \o Split(SubSeq(s, i + 1, Len(s)), sep)

Digits == <<"0", "1", "2", "3", "4", "5", "6", "7", "8", "9">>
IsDigit(c) == \E d \in 1..10 : Digits[d] = c
DigitVal(c) == (CHOOSE d \in 1..10 : Digits[d] = c) - 1

RECURSIVE DigitsValue(_)
DigitsValue(s) ==
    IF s = <<>> THEN 0
    ELSE DigitsValue(SubSeq(s, 1, Len(s) - 1)) * 10 + DigitVal(s[Len(s)])

\* str.strip() of blanks
RECURSIVE Strip(_)
Strip(s) ==
    IF s # <<>> /\ s[1] = " " THEN Strip(SubSeq(s, 2, Len(s)))
    ELSE IF s # <<>> /\ s[Len(s)] = " " THEN Strip(SubSeq(s, 1, Len(s) - 1))
    ELSE s

\* int(s) of a str: blanks stripped, an optional sign, then decimal digits;
\* anything else is a ValueError.  (Underscore digit grouping is not modelled.)
ParseInt(s) ==
    LET t == Strip(s)
        signed == t # <<>> /\ t[1] \in {"+", "-"}
        d == IF signed THEN SubSeq(t, 2, Len(t)) ELSE t
    IN  IF d # <<>> /\ \A i \in 1..Len(d) : IsDigit(d[i])
        THEN [exc |-> "none",
              v |-> IF signed /\ t[1] = "-" THEN 0 - DigitsValue(d) ELSE DigitsValue(d)]
        ELSE [exc |-> "ValueError", v |-> 0]

\* int(x): a str is parsed, an int is itself, None raises TypeError
IntOf(x) ==
    CASE x.type = "str" -> ParseInt(x.s)
      [] x.type = "int" -> [exc |-> "none", v |-> x.n]
      [] OTHER -> [exc |-> "TypeError", v |-> 0]

RECURSIVE DecimalOf(_)
DecimalOf(i) ==
    IF i < 10 THEN <<Digits[i + 1]>> ELSE DecimalOf(i \div 10) \o <<Digits[(i % 10) + 1]>>

RECURSIVE ZeroPad(_, _)
ZeroPad(s, w) == IF Len(s) >= w THEN s ELSE ZeroPad(<<"0">> \o s, w)

\* the reference add_line_numbers_to_diff gives raw line i: f"{i:03d}"
NumberPrefix(i) == ZeroPad(DecimalOf(i), 3)

\* -------------------------------------------- extract_file_line_number
Return(n, ok) == [exc |-> "none", n |-> n, ok |-> ok]
Raise(e)      == [exc |-> e, n |-> 0, ok |-> FALSE]
NoCall        == [exc |-> "nocall", n |-> 0, ok |-> FALSE]

\* line.startswith('+++ b/')
IsNewFileMarker(line) == StartsWith(line, <<"+", "+", "+", " ", "b", "/">>)

\* line.startswith('@@')
IsHunkHeader(line) == StartsWith(line, <<"@", "@">>)

\* target_line.startswith('+') or target_line.startswith('-')
IsChangeLine(line) == StartsWith(line, <<"+">>) \/ StartsWith(line, <<"-">>)

CountsInNewFile_removed(line) ==
    StartsWith(line, <<"+">>) \/ StartsWith(line, <<" ">>) \/ StartsWith(line, <<"-">>)

\* line.startswith('+') or line.startswith(' ')
CountsInNewFile(line) == StartsWith(line, <<"+">>) \/ StartsWith(line, <<" ">>)

\* The hunk header branch: what new_line_num becomes.  set is FALSE when the
\* header has fewer than three blank-separated parts or the third does not
\* start with '+'; int() of the new-range start may raise ValueError.
HunkStart(line) ==
    LET parts == Split(line, " ")
    IN  IF Len(parts) >= 3 /\ StartsWith(parts[3], <<"+">>)
        THEN LET p == ParseInt(Split(SliceFrom(parts[3], 1), ",")[1])
             IN  [exc |-> p.exc, set |-> TRUE, v |-> p.v - 1]
        ELSE [exc |-> "none", set |-> FALSE, v |-> 0]

\* for i in range(line_num): ... ; return 0, False
\* A ValueError of the header parse is caught by the function's except clause.
RECURSIVE ScanFrom(_, _, _, _, _, _)
ScanFrom(lines, line_num, file_path, i, current_file, new_line_num) ==
    IF i >= line_num THEN Return(0, FALSE)
    ELSE LET line == lines[i + 1]
         IN  IF IsNewFileMarker(line)
             THEN ScanFrom(lines, line_num, file_path, i + 1,
                           PyStr(SliceFrom(line, 6)), new_line_num)
             ELSE IF IsHunkHeader(line)
             THEN LET h == HunkStart(line)
                  IN  IF h.exc # "none" THEN Return(0, FALSE)
                      ELSE ScanFrom(lines, line_num, file_path, i + 1, current_file,
                                    IF h.set THEN h.v ELSE new_line_num)
             ELSE IF current_file = file_path /\ CountsInNewFile(line)
             THEN IF i = line_num - 1 THEN Return(new_line_num + 1, TRUE)
                  ELSE ScanFrom(lines, line_num, file_path, i + 1, current_file,
                                new_line_num + 1)
             ELSE ScanFrom(lines, line_num, file_path, i + 1, current_file, new_line_num)

\* lines[line_num - 1] and what follows it.  A negative index counts from the
\* end; one beyond the list raises IndexError, which the function catches.
Resolve(line_num, lines, file_path) ==
    LET k == IF line_num >= 1 THEN line_num ELSE Len(lines) + line_num
    IN  IF k < 1 \/ k > Len(lines) THEN Return(0, FALSE)
        ELSE IF ~IsChangeLine(lines[k]) THEN Return(0, FALSE)
        ELSE ScanFrom(lines, line_num, file_path, 0, PyNone, 0)

extract_file_line_number_clamped(numbered_line, lines, file_path) ==
    LET p == IntOf(numbered_line)
    IN  CASE p.exc = "TypeError" -> Raise("TypeError")
          [] p.exc = "ValueError" -> Return(0, FALSE)
          [] OTHER -> IF p.v > Len(lines) THEN Resolve(Len(lines), lines, file_path)
                      ELSE Resolve(p.v, lines, file_path)

\* except (ValueError, IndexError): a TypeError of int() is not caught
extract_file_line_number(numbered_line, lines, file_path) ==
    LET p == IntOf(numbered_line)
    IN  CASE p.exc = "TypeError" -> Raise("TypeError")
          [] p.exc = "ValueError" -> Return(0, FALSE)
          [] OTHER -> IF p.v > Len(lines) THEN Return(0, FALSE)
                      ELSE Resolve(p.v, lines, file_path)

\* ------------------------------------------------------------ the diff
\* A line of a unified diff: its raw text and what it is.  path is the file
\* of a new-file marker, start the new-range start of a hunk header.
DiffLine(raw, kind, path, start) ==
    [raw |-> raw, kind |-> kind, path |-> path, start |-> start]

PathX == <<"x">>
PathY == <<"y">>
Paths == {PathX, PathY}

GitLine      == DiffLine(<<"d", "i", "f", "f">>, "meta", <<>>, 0)
BlankLine    == DiffLine(<<>>, "meta", <<>>, 0)
OldMarker(f) == DiffLine(<<"-", "-", "-", " ", "a", "/">> \o f, "oldfile", <<>>, 0)
NewMarker(f) == DiffLine(<<"+", "+", "+", " ", "b", "/">> \o f, "newfile", f, 0)
\* the new-file marker of a deleted file
DevNull      == DiffLine(<<"+", "+", "+", " ", "/", "d", "e", "v", "/", "n", "u", "l", "l">>,
                         "nullfile", <<>>, 0)
Added(text)   == DiffLine(<<"+">> \o text, "added", <<>>, 0)
Removed(text) == DiffLine(<<"-">> \o text, "removed", <<>>, 0)
Context(text) == DiffLine(<<" ">> \o text, "context", <<>>, 0)

\* @@ -old,oldCount +new,newCount @@
Hunk(old, oldCount, new, newCount) ==
    DiffLine(<<"@", "@", " ", "-">> \o DecimalOf(old) \o <<",">> \o DecimalOf(oldCount)
             \o <<" ", "+">> \o DecimalOf(new) \o <<",">> \o DecimalOf(newCount)
             \o <<" ", "@", "@">>,
             "hunk", <<>>, new)

RawOf(doc) == [i \in 1..Len(doc) |-> doc[i].raw]

Count(doc, kinds) == Cardinality({i \in 1..Len(doc) : doc[i].kind \in kinds})

\* a hunk: its header, computed from the body, then the body
HunkOf(start, body) ==
    <<Hunk(start, Count(body, {"removed", "context"}),
           start, Count(body, {"added", "context"}))>> \o body

FileSection(f, hunks) == <<GitLine, OldMarker(f), NewMarker(f)>> \o hunks

SeqsUpTo(S, n) == UNION {[1..k -> S] : k \in 1..n}

ContentLines == {Added(<<"a">>), Removed(<<"a">>), Context(<<"a">>)}
Bodies == SeqsUpTo(ContentLines, MaxBody)

\* Well-formed diffs: one file with one or two hunks, or two files with one
\* hunk each; the text ends with a newline, so the last raw line is empty.
WellFormedDocs ==
    {FileSection(PathX, HunkOf(3, b)) \o <<BlankLine>> : b \in Bodies}
    \cup {FileSection(PathX, HunkOf(3, b[1]) \o HunkOf(12, b[2])) \o <<BlankLine>> :
            b \in Bodies \X Bodies}
    \cup {FileSection(PathX, HunkOf(3, b[1])) \o FileSection(PathY, HunkOf(1, b[2]))
            \o <<BlankLine>> : b \in Bodies \X Bodies}

\* A well-formed diff that adds the line "++ b/y" to file x.
MarkerTextDoc ==
    FileSection(PathX, HunkOf(3, <<Added(<<"+", "+", " ", "b", "/">> \o PathY),
                                   Added(<<"a">>)>>)) \o <<BlankLine>>

\* Raw lines an arbitrary diff text is drawn from.
RawLines ==
    {NewMarker(PathX).raw, NewMarker(PathY).raw, DevNull.raw,
     Hunk(1, 1, 3, 1).raw, Hunk(1, 1, 0, 0).raw,
     <<"@", "@", " ", "-", "1", " ", "+", "z", " ", "@", "@">>, <<"@", "@">>,
     Added(<<"a">>).raw, Removed(<<"a">>).raw, Context(<<"a">>).raw, <<>>}

ArbitraryTexts == SeqsUpTo(RawLines, MaxLines)

\* Line references: the prefixes the numbering pass gives the raw lines and
\* the one after the last, and what a model may emit instead of one.
References(lines) ==
    {PyStr(NumberPrefix(i)) : i \in 1..(Len(lines) + 1)}
    \cup {PyStr(<<>>), PyStr(<<"x">>), PyStr(<<"0">>), PyInt(2), PyNone}

\* ------------------------------------------------------------ main()
\* What the provider's review_code returned (json.loads of the response):
\* a list, or another JSON value.  items is what iterating over it yields:
\* the elements of a list, the keys of a dict.
PyList(items) == [type |-> "list", items |-> items]
PyDict(keys)  == [type |-> "dict", items |-> keys]
PyNumber      == [type |-> "int",  items |-> <<>>]
EmptyList     == PyList(<<>>)

\* len(x) raises TypeError for a number
HasLen(x) == x.type \in {"list", "dict"}

\* A raw comment: a dict with the keys it has (Missing: the key is absent),
\* or an element that is no dict.
RawComment(numbered_line, file_path, level, comment) ==
    [is_dict |-> TRUE, numbered_line |-> numbered_line, file_path |-> file_path,
     level |-> level, comment |-> comment]
NotADict ==
    [is_dict |-> FALSE, numbered_line |-> Missing, file_path |-> Missing,
     level |-> Missing, comment |-> Missing]

Critical == <<"c", "r", "i", "t", "i", "c", "a", "l">>
Nitpick  == <<"n", "i", "t", "p", "i", "c", "k">>
NullCheck ==
    <<"m", "i", "s", "s", "i", "n", "g", " ", "n", "u", "l", "l", " ", "c", "h", "e", "c", "k">>
Rename == <<"r", "e", "n", "a", "m", "e">>

LowerCase == <<"a", "b", "c", "d", "e", "f", "g", "h", "i", "j", "k", "l", "m",
               "n", "o", "p", "q", "r", "s", "t", "u", "v", "w", "x", "y", "z">>
UpperCase == <<"A", "B", "C", "D", "E", "F", "G", "H", "I", "J", "K", "L", "M",
               "N", "O", "P", "Q", "R", "S", "T", "U", "V", "W", "X", "Y", "Z">>

\* str.upper(), on ASCII text
Upper(s) ==
    [i \in 1..Len(s) |->
        IF \E j \in 1..26 : LowerCase[j] = s[i]
        THEN UpperCase[CHOOSE j \in 1..26 : LowerCase[j] = s[i]]
        ELSE s[i]]

\* str(x), as an f-string formats a value
StrOf(x) ==
    CASE x.type = "str" -> x.s
      [] x.type = "int" -> DecimalOf(x.n)
      [] OTHER -> <<"N", "o", "n", "e">>

Body_as_is(level, comment) ==
    <<"*", "*">> \o level.s \o <<"*", "*", ":", " ">> \o StrOf(comment)

\* f"**{c['level'].upper()}**: {c['comment']}"
Body(level, comment) ==
    <<"*", "*">> \o Upper(level.s) \o <<"*", "*", ":", " ">> \o StrOf(comment)

Payload(path, line, body) == [path |-> path, line |-> line, side |-> "RIGHT", body |-> body]
NoPayload == Payload(Missing, 0, <<>>)

Dropped(r)     == [exc |-> "none", emit |-> FALSE, payload |-> NoPayload, ret |-> r]
Emitted(r, p)  == [exc |-> "none", emit |-> TRUE,  payload |-> p, ret |-> r]
Aborted(e, r)  == [exc |-> e, emit |-> FALSE, payload |-> NoPayload, ret |-> r]

\* file_line_num > 0 and is_change_line
Accepts(r) == r.n > 0 /\ r.ok

\* c.get("numbered_line", "001")
NumberedLineOf(c) ==
    IF c.numbered_line = Missing THEN PyStr(<<"0", "0", "1">>) ELSE c.numbered_line

\* One pass of the loop body over comment c: the comment is dropped, projected,
\* or an exception leaves the loop (c.get on a non-dict: AttributeError; a
\* subscript of an absent key: KeyError; .upper() of a non-str: AttributeError;
\* a TypeError out of extract_file_line_number).
ProjectComment(c, lines) ==
    IF ~c.is_dict THEN Aborted("AttributeError", NoCall)
    ELSE IF c.file_path = Missing THEN Aborted("KeyError", NoCall)
    ELSE LET r == extract_file_line_number(NumberedLineOf(c), lines, c.file_path)
         IN  IF r.exc # "none" THEN Aborted(r.exc, r)
             ELSE IF ~Accepts(r) THEN Dropped(r)
             ELSE IF c.level = Missing THEN Aborted("KeyError", r)
             ELSE IF c.level.type # "str" THEN Aborted("AttributeError", r)
             ELSE IF c.comment = Missing THEN Aborted("KeyError", r)
             ELSE Emitted(r, Payload(c.file_path, r.n, Body(c.level, c.comment)))

SubmitReview_always_posts(comments, accepted) ==
    [posted |-> TRUE, exc |-> IF accepted THEN "none" ELSE "RuntimeError"]

\* GitHubClient.submit_review: nothing is sent for no comments; otherwise the
\* review is POSTed, and a status other than 200/201 raises RuntimeError.
SubmitReview(comments, accepted) ==
    IF comments = <<>> THEN [posted |-> FALSE, exc |-> "none"]
    ELSE [posted |-> TRUE, exc |-> IF accepted THEN "none" ELSE "RuntimeError"]

\* the diff of spec 8.6: three lines added to x at new line 10 and a context
\* line, then one line of y replaced
TwoFilesDoc ==
    FileSection(PathX, HunkOf(10, <<Added(<<"a">>), Added(<<"a">>), Added(<<"a">>),
                                    Context(<<"a">>)>>))
    \o FileSection(PathY, HunkOf(1, <<Removed(<<"a">>), Added(<<"a">>)>>))
    \o <<BlankLine>>

\* x modified, y deleted
DeletedFileDoc ==
    FileSection(PathX, HunkOf(10, <<Added(<<"a">>), Added(<<"a">>)>>))
    \o <<GitLine, OldMarker(PathY), DevNull, Hunk(1, 1, 0, 0), Removed(<<"a">>), BlankLine>>

EmptyDoc == <<BlankLine>>

MainDocs == {TwoFilesDoc, DeletedFileDoc, EmptyDoc}

\* not diff_text.strip()
IsBlankText(lines) == \A i \in 1..Len(lines) : Strip(lines[i]) = <<>>

Ref(i) == PyStr(NumberPrefix(i))

\* The raw comments a response is made of: well-formed ones that point at an
\* added line, at a context line, at a line of another file, at a file marker
\* or a removed line, and malformed ones.
CommentAlphabet ==
    {RawComment(Ref(5), PyStr(PathX), PyStr(Critical), PyStr(NullCheck)),
     RawComment(Ref(6), PyStr(PathX), PyStr(Nitpick), PyStr(Rename)),
     RawComment(Ref(8), PyStr(PathX), PyStr(Nitpick), PyStr(Rename)),
     RawComment(Ref(6), PyStr(PathY), PyStr(Critical), PyStr(Rename)),
     RawComment(Ref(9), PyStr(PathX), PyStr(Nitpick), PyStr(Rename)),
     RawComment(Ref(13), PyStr(PathY), PyStr(Nitpick), PyStr(Rename)),
     RawComment(Missing, PyStr(PathX), PyStr(Nitpick), PyStr(Rename)),
     RawComment(Ref(5), Missing, PyStr(Nitpick), PyStr(Rename)),
     RawComment(Ref(5), PyStr(PathX), Missing, PyStr(Rename)),
     RawComment(Ref(5), PyStr(PathX), PyNone, PyStr(Rename)),
     RawComment(PyNone, PyStr(PathX), PyStr(Nitpick), PyStr(Rename)),
     NotADict}

ProviderResults ==
    {PyList(<<>>)} \cup {PyList(l) : l \in SeqsUpTo(CommentAlphabet, MaxComments)}
    \cup {PyDict(<<>>), PyDict(<<NotADict>>), PyNumber}

Init ==
    /\ pc = "get_diff"
    /\ diff_text = <<>> /\ diff_lines = <<>>
    /\ all_comments = EmptyList /\ idx = 0 /\ github_comments = <<>>
    /\ requests = <<>> /\ outcome = "running"
    /\ args = [numbered_line |-> Missing, file_path |-> Missing] /\ ret = NoCall

\* lines 191-199: the diff is fetched; a failure or a blank diff ends the run
GetDiff ==
    /\ pc = "get_diff"
    /\ \/ /\ pc' = "done" /\ outcome' = "diff_error"
          /\ UNCHANGED <<diff_text, diff_lines>>
       \/ \E doc \in MainDocs :
            /\ diff_lines' = doc
            /\ diff_text' = RawOf(doc)
            /\ IF IsBlankText(RawOf(doc))
               THEN pc' = "done" /\ outcome' = "no_diff"
               ELSE pc' = "review" /\ outcome' = outcome
    /\ UNCHANGED <<all_comments, idx, github_comments, requests, args, ret>>

\* lines 202-209: all_comments = llm_review_chunk(...); when the call raises,
\* all_comments stays []; a non-list result raises ValueError after the
\* assignment, and the except clause only reports it
Review ==
    /\ pc = "review"
    /\ \/ all_comments' = EmptyList
       \/ \E v \in ProviderResults : all_comments' = v
    /\ pc' = "save"
    /\ UNCHANGED <<diff_text, diff_lines, idx, github_comments, requests, outcome, args, ret>>

\* lines 212-213: the comments are written out; len(all_comments) is outside
\* any try
Save ==
    /\ pc = "save"
    /\ IF HasLen(all_comments)
       THEN pc' = "head_sha" /\ outcome' = outcome
       ELSE pc' = "done" /\ outcome' = "crashed"
    /\ UNCHANGED <<diff_text, diff_lines, all_comments, idx, github_comments, requests, args, ret>>

\* lines 217-222: the head commit is fetched and the loop set up
GetHeadSha ==
    /\ pc = "head_sha"
    /\ \/ pc' = "loop" /\ idx' = 1 /\ github_comments' = <<>> /\ outcome' = outcome
       \/ pc' = "done" /\ outcome' = "sha_error" /\ UNCHANGED <<idx, github_comments>>
    /\ UNCHANGED <<diff_text, diff_lines, all_comments, requests, args, ret>>

\* lines 224-239: one pass of the loop; an exception ends the try block
\* (lines 243-244) with nothing submitted
Project ==
    /\ pc = "loop" /\ idx <= Len(all_comments.items)
    /\ LET c == all_comments.items[idx]
           p == ProjectComment(c, diff_text)
       IN  /\ IF p.ret = NoCall THEN UNCHANGED <<args, ret>>
              ELSE /\ ret' = p.ret
                   /\ args' = [numbered_line |-> NumberedLineOf(c), file_path |-> c.file_path]
           /\ IF p.exc # "none"
              THEN /\ pc' = "done" /\ outcome' = "loop_error"
                   /\ UNCHANGED <<idx, github_comments>>
              ELSE /\ pc' = pc /\ outcome' = outcome
                   /\ idx' = idx + 1
                   /\ github_comments' = IF p.emit THEN Append(github_comments, p.payload)
                                         ELSE github_comments
    /\ UNCHANGED <<diff_text, diff_lines, all_comments, requests>>

\* lines 241-244: submit_review(github_comments)
Submit ==
    /\ pc = "loop" /\ idx > Len(all_comments.items)
    /\ \E accepted \in BOOLEAN :
         LET s == SubmitReview(github_comments, accepted)
         IN  /\ requests' = IF s.posted THEN Append(requests, github_comments) ELSE requests
             /\ outcome' = IF s.exc # "none" THEN "post_error"
                           ELSE IF s.posted THEN "review_posted" ELSE "no_comments"
    /\ pc' = "done"
    /\ UNCHANGED <<diff_text, diff_lines, all_comments, idx, github_comments, args, ret>>

Next == GetDiff \/ Review \/ Save \/ GetHeadSha \/ Project \/ Submit

Spec == Init /\ [][Next]_vars

\* ------------------------------------------------ the function alone
InitResolve ==
    /\ \/ diff_lines = <<>> /\ diff_text \in ArbitraryTexts
       \/ diff_lines \in WellFormedDocs \cup {MarkerTextDoc} /\ diff_text = RawOf(diff_lines)
    /\ \E r \in References(diff_text), f \in Paths :
          args = [numbered_line |-> r, file_path |-> PyStr(f)]
    /\ ret = NoCall
    /\ pc = "call"
    /\ all_comments = EmptyList /\ idx = 0 /\ github_comments = <<>>
    /\ requests = <<>> /\ outcome = "running"

\* extract_file_line_number(numbered_line, diff_text, file_path)
Call ==
    /\ pc = "call"
    /\ ret' = extract_file_line_number(args.numbered_line, diff_text, args.file_path)
    /\ pc' = "returned"
    /\ UNCHANGED <<diff_text, diff_lines, all_comments, idx, github_comments,
                   requests, outcome, args>>

NextResolve == Call

SpecResolve == InitResolve /\ [][NextResolve]_vars

\* --------------------------------------------- claims on the function
\* reference r is the integer k, as the numbering pass writes it or as a number
RefersTo(r, k) == r = PyStr(NumberPrefix(k)) \/ r = PyInt(k)

Returned == pc = "returned"

\* What the rendered diff says of raw line k: the file of the section it lies
\* in, the hunk header that encloses it, and its line number in the new file.
Max(S) == CHOOSE m \in S : \A x \in S : x <= m
MarkersBefore(doc, k) == {i \in 1..(k - 1) : doc[i].kind \in {"newfile", "nullfile"}}
HeadersBefore(doc, k) == {i \in 1..(k - 1) : doc[i].kind = "hunk"}
FileOf(doc, k) == doc[Max(MarkersBefore(doc, k))].path
NewLineNumber(doc, k) ==
    LET h == Max(HeadersBefore(doc, k))
    IN  doc[h].start + Cardinality({i \in (h + 1)..(k - 1) : doc[i].kind \in {"added", "context"}})

\* the call is about added line k of file f of a well-formed diff
AddedLineCall(k) ==
    /\ diff_lines # <<>>
    /\ k \in 1..Len(diff_lines)
    /\ RefersTo(args.numbered_line, k)
    /\ diff_lines[k].kind = "added"
    /\ args.file_path = PyStr(FileOf(diff_lines, k))

\* C2: in a well-formed diff, the call for an added line k of file f returns
\* (n, True), n being the new-range start of the enclosing hunk header plus
\* the number of added and context lines before line k in that hunk.
C2_AddedLineNumbered ==
    \A k \in 1..Len(diff_text) :
        (Returned /\ AddedLineCall(k)) => ret = Return(NewLineNumber(diff_lines, k), TRUE)

\* no added line of the diff has a text that reads as a new-file marker
NoMarkerText(doc) ==
    \A i \in 1..Len(doc) : doc[i].kind = "added" => ~IsNewFileMarker(doc[i].raw)

\* C2 holds of the diffs that add no line whose text starts with "++ b/".
AddedLineNumberedUnlessMarkerText ==
    \A k \in 1..Len(diff_text) :
        (Returned /\ AddedLineCall(k) /\ NoMarkerText(diff_lines))
            => ret = Return(NewLineNumber(diff_lines, k), TRUE)

\* references that are no integer
Unparseable == {PyStr(<<>>), PyStr(<<"x">>), PyNone}

\* C3: the call never raises, whatever the reference, and returns (0, False)
\* for a reference that cannot be parsed as an integer.
C3_NeverRaises ==
    Returned => /\ ret.exc = "none"
                /\ args.numbered_line \in Unparseable => ret = Return(0, FALSE)

\* the reference points at raw line k, which starts with '-'
RemovedLineCall(k) ==
    /\ k \in 1..Len(diff_text)
    /\ RefersTo(args.numbered_line, k)
    /\ StartsWith(diff_text[k], <<"-">>)

\* C7: a reference to a removed line returns (0, False), whatever the file.
C7_RemovedNeverResolves ==
    \A k \in 1..Len(diff_text) : (Returned /\ RemovedLineCall(k)) => ret = Return(0, FALSE)

\* a removed line inside a hunk of the file the call names was resolved
C7_Witness ==
    \E k \in 1..Len(diff_text) :
        /\ Returned /\ RemovedLineCall(k)
        /\ diff_lines # <<>> /\ diff_lines[k].kind = "removed"
        /\ args.file_path = PyStr(FileOf(diff_lines, k))
        /\ ret = Return(0, FALSE)

\* the reference is an integer beyond the last raw line
BeyondLastLine == \E k \in (Len(diff_text) + 1)..(Len(diff_text) + 2) : RefersTo(args.numbered_line, k)

\* C8: an integer reference greater than the number of raw lines returns
\* (0, False) and does not raise.
C8_OutOfRange == (Returned /\ BeyondLastLine) => ret = Return(0, FALSE)

\* the reference is one past a last line that is an added line of the file named
C8_Witness ==
    /\ Returned /\ BeyondLastLine
    /\ StartsWith(diff_text[Len(diff_text)], <<"+">>)
    /\ Len(diff_text) >= 2 /\ diff_text[1] = NewMarker(args.file_path.s).raw
    /\ ret = Return(0, FALSE)

\* hunk headers whose new-range start is no integer ("@@ -1 +z @@") or whose
\* new-range segment is absent ("@@")
UnparseableHeader == <<"@", "@", " ", "-", "1", " ", "+", "z", " ", "@", "@">>
BareHeader == <<"@", "@">>
MalformedHeaders == {UnparseableHeader, BareHeader}

IsWellFormedLine(line) == line \notin MalformedHeaders
HasSegment(line) == line # BareHeader

\* C11: a malformed hunk header is handled fail-soft: the counter keeps its
\* value and the scan goes on, so a reference resolves as it does in the text
\* without the malformed headers before it; the resolution is not aborted.
C11_MalformedHeaderFailSoft ==
    \A k \in 1..Len(diff_text) :
        (Returned /\ RefersTo(args.numbered_line, k) /\ IsWellFormedLine(diff_text[k]))
            => LET rest == SelectSeq(SubSeq(diff_text, 1, k), IsWellFormedLine)
               IN  ret = extract_file_line_number(PyInt(Len(rest)), rest, args.file_path)

\* C11 holds of the headers whose new-range segment is absent: they leave the
\* counter as it was.
FailSoftWhenSegmentAbsent ==
    \A k \in 1..Len(diff_text) :
        (Returned /\ RefersTo(args.numbered_line, k) /\ HasSegment(diff_text[k]))
            => LET rest == SelectSeq(SubSeq(diff_text, 1, k), HasSegment)
               IN  ret = extract_file_line_number(PyInt(Len(rest)), rest, args.file_path)

\* C12: whenever the call returns, the result is (0, False) or (n, True) with
\* n >= 1: a line is never valid with a zero or negative number.
C12_ValidMeansPositive ==
    (Returned /\ ret.exc = "none") => (ret = Return(0, FALSE) \/ (ret.ok /\ ret.n >= 1))

\* C12 holds of the texts without a hunk header of new-range start 0.
ValidMeansPositiveUnlessStartZero ==
    (Returned /\ ret.exc = "none" /\ \A i \in 1..Len(diff_text) : diff_text[i] # Hunk(1, 1, 0, 0).raw)
        => (ret = Return(0, FALSE) \/ (ret.ok /\ ret.n >= 1))

\* ------------------------------------------------- claims on main()
\* the loop has just projected the comment at idx
Projects == Len(github_comments') = Len(github_comments) + 1

\* comment c points at an added line, inside a hunk, of the section of its file
TargetsAddedLine(c) ==
    \E k \in 1..Len(diff_lines) :
        /\ RefersTo(NumberedLineOf(c), k)
        /\ diff_lines[k].kind = "added"
        /\ MarkersBefore(diff_lines, k) # {}
        /\ HeadersBefore(diff_lines, k) # {}
        /\ Max(HeadersBefore(diff_lines, k)) > Max(MarkersBefore(diff_lines, k))
        /\ c.file_path = PyStr(FileOf(diff_lines, k))

\* C1: every comment the loop appends to github_comments points at an added
\* line of the file it names: never at a context line, a removed line, a file
\* marker or metadata line, or a line of another file.
C1_OnlyAddedLinesOfFile ==
    [][Projects => TargetsAddedLine(all_comments.items[idx])]_vars

\* the loop was entered and the run is over
RunOver == pc = "done" /\ outcome \in {"loop_error", "no_comments", "review_posted", "post_error"}

WellFormed(c) ==
    /\ c.is_dict
    /\ c.file_path.type = "str" /\ c.level.type = "str" /\ c.comment.type = "str"
    /\ c.numbered_line.type \in {"str", "missing"}

\* comment c resolves to (n > 0, True)
Resolves(c) ==
    /\ c.is_dict /\ c.file_path # Missing
    /\ LET r == extract_file_line_number(NumberedLineOf(c), diff_text, c.file_path)
       IN  r.exc = "none" /\ r.n > 0 /\ r.ok

\* where comment c lands: its file and its line in the new file
Target(c) ==
    [path |-> c.file_path,
     line |-> extract_file_line_number(NumberedLineOf(c), diff_text, c.file_path).n]
Targets(cs) == [i \in 1..Len(cs) |-> Target(cs[i])]
Landed(ps) == [i \in 1..Len(ps) |-> [path |-> ps[i].path, line |-> ps[i].line]]

IsValid(c) == WellFormed(c) /\ Resolves(c)

\* C4: a malformed comment is dropped on its own: the loop goes on, and every
\* well-formed valid comment of the list, before or after it, is projected
\* and handed to submit_review.
C4_MalformedDroppedAlone ==
    (RunOver /\ all_comments.type = "list")
        => /\ outcome # "loop_error"
           /\ Landed(github_comments) = Targets(SelectSeq(all_comments.items, IsValid))

\* C5: a provider result that is no list is rejected before the projection:
\* the loop never runs over it and the run does not crash on it.
C5_NonListRejected ==
    /\ pc = "loop" => all_comments.type = "list"
    /\ outcome # "crashed"

\* C6: for every list of raw comments, github_comments is the subsequence of
\* the comments that resolve to (n > 0, True), in input order, one output per
\* accepted comment, duplicates included.
C6_OrderPreservingFilter ==
    (RunOver /\ all_comments.type = "list")
        => Landed(github_comments) = Targets(SelectSeq(all_comments.items, Resolves))

\* What holds of C6 whatever the list: github_comments is that subsequence of
\* the comments the loop has got through.
FilterOfProcessedComments ==
    (pc = "loop" \/ RunOver)
        => Landed(github_comments)
             = Targets(SelectSeq(SubSeq(all_comments.items, 1, idx - 1), Resolves))

CriticalBody ==
    <<"*", "*", "C", "R", "I", "T", "I", "C", "A", "L", "*", "*", ":", " ">> \o NullCheck

\* C9: every payload the loop emits has the comment's file_path as path, the
\* resolved new-file line (positive) as line, "RIGHT" as side, and
\* "**" + LEVEL + "**: " + comment as body, the comment text unchanged.
C9_PayloadShape ==
    [][Projects =>
        LET c == all_comments.items[idx]
            p == github_comments'[Len(github_comments')]
        IN  /\ p.path = c.file_path
            /\ p.line = Target(c).line /\ p.line > 0
            /\ p.side = "RIGHT"
            /\ p.body = <<"*", "*">> \o Upper(c.level.s) \o <<"*", "*", ":", " ">> \o c.comment.s
            /\ Len(p.body) = Len(c.level.s) + Len(c.comment.s) + 6
            /\ (c.level.s = Critical /\ c.comment.s = NullCheck) => p.body = CriticalBody]_vars

\* the example of spec 8.5 was projected
C9_Witness ==
    /\ github_comments # <<>>
    /\ github_comments[1] = Payload(PyStr(PathX), 10, CriticalBody)

\* the loop got through every comment
LoopFinished == pc = "done" /\ idx = Len(all_comments.items) + 1

\* C10: when every comment was dropped, or there was none, the run ends with
\* nothing projected and without an error: submit_review returns without
\* sending anything; a review is POSTed only with at least one comment, and it
\* carries the projected comments.
C10_EmptyReviewIsNoError ==
    /\ (LoopFinished /\ github_comments = <<>>) => (outcome = "no_comments" /\ requests = <<>>)
    /\ requests # <<>> => (github_comments # <<>> /\ requests = <<github_comments>>)

\* a run whose comments were all dropped has ended
C10_Witness ==
    /\ LoopFinished /\ Len(all_comments.items) >= 2 /\ all_comments.type = "list"
    /\ github_comments = <<>> /\ outcome = "no_comments"

====
